---- MODULE Spec2Model ----
(***************************************************************************)
(* Model of the two validation scripts of celestine:                       *)
(*   .references/validation/generate_reference_data.py                     *)
(*   .references/validation/einstein_chart.py                              *)
(*                                                                         *)
(* Numbers.  Python floats are modelled in fixed point with exact          *)
(* arithmetic:                                                             *)
(*   - an angle, distance or speed that the scripts handle after           *)
(*     round(x, 6) is an integer count of 10^-6 units ("micro");           *)
(*   - a value as the provider returns it (before rounding) is an integer  *)
(*     count of 1/RawPerMicro micro ("raw"), so that values between two    *)
(*     multiples of 10^-6 exist;                                           *)
(*   - a Julian Day of TEST_DATES is an integer count of half days.        *)
(* Python sequences are 0-indexed; the TLA+ sequence that models one holds *)
(* Python index i at position i + 1.                                       *)
(***************************************************************************)
EXTENDS Integers, Sequences, FiniteSets, TLC

VARIABLES
    \* generate_reference_data.main
    pc, di, bi, all_data, date_data, queries, stdout, file, writes,
    prev_file, run, now, seed, fail_at,
    \* einstein_chart.main
    cpc, geo, sky, jd, jd_tt, lst, cusps, ascmc, house_rows, ci, cqueries, crows,
    \* a single call of a pure function
    fn_in, fn_out, fn_done

refVars   == <<pc, di, bi, all_data, date_data, queries, stdout, file, writes,
               prev_file, run, now, seed, fail_at>>
chartVars == <<cpc, geo, sky, jd, jd_tt, lst, cusps, ascmc, house_rows, ci,
               cqueries, crows>>
fnVars    == <<fn_in, fn_out, fn_done>>
vars      == <<refVars, chartVars, fnVars>>

(***************************************************************************)
(* Fixed-point scales and bounds of the model.                             *)
(***************************************************************************)
\* round(x, 6): six decimal places, i.e. 10^6 micro per unit.
Micro == 1000000
\* raw units per micro (resolution of unrounded provider values); odd, so
\* that no raw value lies exactly halfway between two micro.
RawPerMicro == 3
\* number of alternative deterministic provider tables.
MaxSeed == 2
\* wall-clock readings available to datetime.now().
MaxClock == 2
\* whole-degree range of the longitudes handed to format_zodiac.
ZNegDeg == 400
ZPosDeg == 760
\* largest |raw longitude speed| tried on calculate_position.
MaxRawSpeed == 12
\* spacing, in degrees, of the geographic longitudes tried from -180 to 360.
LonStepDeg == 45

Micro30  == 30 * Micro
Micro360 == 360 * Micro

(***************************************************************************)
(* Python arithmetic.                                                      *)
(***************************************************************************)
\* int(n / d) for d > 0: truncation toward zero.
PyInt(n, d) == IF n >= 0 THEN n \div d ELSE -((-n) \div d)

\* round half to even of n / d for d > 0 (round(), and the .Nf formats).
RoundHalfEven(n, d) ==
    LET q == n \div d
        r == n % d
    IN  IF 2 * r < d THEN q
        ELSE IF 2 * r > d THEN q + 1
        ELSE IF q % 2 = 0 THEN q ELSE q + 1

\* round(x, 6) of a raw value, in micro.
round6(raw) == RoundHalfEven(raw, RawPerMicro)

\* an unrounded value handed to format_zodiac by einstein_chart: the whole
\* micro below it (sign and whole degree do not depend on the rest)
to_micro(raw) == raw \div RawPerMicro

(***************************************************************************)
(* format_zodiac (both scripts).  longitude is in micro degrees.           *)
(***************************************************************************)
signs == <<"Ari", "Tau", "Gem", "Can", "Leo", "Vir",
           "Lib", "Sco", "Sag", "Cap", "Aqu", "Pis">>

SIGNS == <<"Aries", "Taurus", "Gemini", "Cancer", "Leo", "Virgo",
           "Libra", "Scorpio", "Sagittarius", "Capricorn", "Aquarius", "Pisces">>

\* a slip that rounds the quotient to the nearest integer instead of truncating
sign_idx_rounding(longitude) == RoundHalfEven(longitude, Micro30) % 12

\* sign_idx = int(longitude / 30) % 12
sign_idx(longitude) == PyInt(longitude, Micro30) % 12

\* degrees = longitude % 30   (Python %: result has the sign of the divisor)
degrees(longitude) == longitude % Micro30

\* generate_reference_data.format_zodiac: f"{degrees:.2f}deg {signs[sign_idx]}"
\* text.degrees_2f is the printed number in hundredths of a degree.
format_zodiac(longitude) ==
    [sign_idx |-> sign_idx(longitude),
     degrees  |-> degrees(longitude),
     text     |-> [degrees_2f |-> RoundHalfEven(degrees(longitude), Micro \div 100),
                   sign       |-> signs[sign_idx(longitude) + 1]]]

\* einstein_chart.format_zodiac: f"{deg}deg{minutes:.1f}' {SIGNS[sign_idx]}"
\* text.minutes_1f is the printed number in tenths of an arc minute.
format_zodiac_chart(longitude) ==
    LET d   == degrees(longitude)
        deg == PyInt(d, Micro)
    IN  [sign_idx |-> sign_idx(longitude),
         degrees  |-> d,
         text     |-> [deg        |-> deg,
                       minutes_1f |-> RoundHalfEven((d - deg * Micro) * 600, Micro),
                       sign       |-> SIGNS[sign_idx(longitude) + 1]]]

(***************************************************************************)
(* calculate_position.  result is the provider's vector                    *)
(* [lon, lat, dist, lon_speed, lat_speed, dist_speed] in raw units.        *)
(***************************************************************************)
PositionFields ==
    {"longitude", "latitude", "distance", "longitude_speed", "latitude_speed",
     "is_retrograde"}

\* a slip that follows the docstring ("longitude, latitude, distance, speed,
\* is_retrograde") and leaves latitude_speed out of the record
position_record_no_latitude_speed(result) ==
    [longitude       |-> round6(result[1]),
     latitude        |-> round6(result[2]),
     distance        |-> round6(result[3]),
     longitude_speed |-> round6(result[4]),
     is_retrograde   |-> result[4] < 0]

\* the dict literal returned by calculate_position
position_record(result) ==
    [longitude       |-> round6(result[1]),
     latitude        |-> round6(result[2]),
     distance        |-> round6(result[3]),
     longitude_speed |-> round6(result[4]),
     latitude_speed  |-> round6(result[5]),
     is_retrograde   |-> result[4] < 0]

(***************************************************************************)
(* Single calls of the pure functions, on inputs drawn from bounded sets.  *)
(***************************************************************************)
ZFracs == {0, 1, Micro \div 4, Micro - 1}

ZodiacInputs ==
    {d * Micro + f : d \in (0 - ZNegDeg) .. ZPosDeg, f \in ZFracs}

PositionInputs ==
    {<<lon, lat, dist, sp, lsp, 0>> :
        lon  \in {0, 123456789 * RawPerMicro + 1, Micro360 * RawPerMicro - 1},
        lat  \in {0 - 1500000 * RawPerMicro - 1, 0},
        dist \in {983327 * RawPerMicro},
        sp   \in (0 - MaxRawSpeed) .. MaxRawSpeed,
        lsp  \in {0 - 1, 2}}

(***************************************************************************)
(* Python dicts that grow at run time: insertion-ordered <<key, value>>    *)
(* pairs.  d[k] = v replaces the value of an existing key in place and     *)
(* appends a new key.                                                      *)
(***************************************************************************)
DictKeys(d) == [i \in 1 .. Len(d) |-> d[i][1]]

DictHas(d, k) == \E i \in 1 .. Len(d) : d[i][1] = k

DictGet(d, k) == d[CHOOSE i \in 1 .. Len(d) : d[i][1] = k][2]

DictSet(d, k, v) ==
    IF DictHas(d, k)
    THEN [i \in 1 .. Len(d) |-> IF d[i][1] = k THEN <<k, v>> ELSE d[i]]
    ELSE Append(d, <<k, v>>)

(***************************************************************************)
(* Module constants of generate_reference_data.py.                         *)
(***************************************************************************)
\* PLANETS, in insertion order; id is the provider's body number.
PLANETS ==
    << [name |-> "Sun",     id |-> 0], [name |-> "Moon",    id |-> 1],
       [name |-> "Mercury", id |-> 2], [name |-> "Venus",   id |-> 3],
       [name |-> "Mars",    id |-> 4], [name |-> "Jupiter", id |-> 5],
       [name |-> "Saturn",  id |-> 6], [name |-> "Uranus",  id |-> 7],
       [name |-> "Neptune", id |-> 8], [name |-> "Pluto",   id |-> 9] >>

\* TEST_DATES: jd in half days; scale is the time scale that the entry's
\* description names for the moment.
TEST_DATES ==
    << [jd |-> 4903090, desc |-> "2000-Jan-01 12:00 TT (J2000.0)",       scale |-> "TT"],
       [jd |-> 4897449, desc |-> "1992-Apr-12 00:00 TT (Meeus Ex 47.a)", scale |-> "TT"],
       [jd |-> 4830041, desc |-> "1900-Jan-01 00:00 TT",                 scale |-> "TT"],
       [jd |-> 4881175, desc |-> "1970-Jan-01 00:00 TT (Unix epoch)",    scale |-> "TT"],
       [jd |-> 4919161, desc |-> "2022-Jan-01 00:00 TT",                 scale |-> "TT"],
       [jd |-> 4976139, desc |-> "2100-Jan-01 00:00 TT",                 scale |-> "TT"] >>

NDates   == Len(TEST_DATES)
NPlanets == Len(PLANETS)

\* str(jd) of a float that is a whole number of half days: "<int>.0" or
\* "<int>.5", as <<integer part, fractional digit>>.
str_jd(j) == <<j \div 2, 5 * (j % 2)>>

\* the literal key '2451545.0' of the key-values section
J2000Key == <<2451545, 0>>

(***************************************************************************)
(* The ephemeris provider (swisseph), an external deterministic oracle.    *)
(* Answers are vectors in raw units; sd selects one of the answer tables.  *)
(***************************************************************************)
Answers ==
    << <<280368920 * RawPerMicro + 1, 227 * RawPerMicro, 983327 * RawPerMicro,
         1019432 * RawPerMicro + 1, 0 - 1, 0>>,
       <<223323786 * RawPerMicro, 5170823 * RawPerMicro + 2, 2690 * RawPerMicro,
         12021183 * RawPerMicro, 0 - 770000 * RawPerMicro, 0>>,
       <<Micro360 * RawPerMicro - 1, 0 - 1500000 * RawPerMicro, 30120000 * RawPerMicro,
         0 - 21000 * RawPerMicro - 3, 3, 0>>,
       <<29999999 * RawPerMicro + 3, 0, 5000000 * RawPerMicro,
         0 - 1, 0, 0>>,
       <<0, 0 - 1, 1500000 * RawPerMicro, 0, 1, 0>> >>

\* swe.calc_ut(jd, planet_id, CALC_FLAGS)[0] when the call returns
calc_ut(sd, j, planet_id) == Answers[((j + planet_id + sd) % Len(Answers)) + 1]

\* whether swe.calc_ut(jd, planet_id, ...) raises swe.Error
calc_ut_raises(fa, j, planet_id) == <<j, planet_id>> \in fa

\* the provider either answers every query or fails for one (date, body)
FailPoints ==
    {{}} \cup {{<<TEST_DATES[i].jd, PLANETS[k].id>>} : i \in 1 .. NDates, k \in 1 .. NPlanets}

\* a query as the provider sees it: the function called, the Julian Day
\* passed and the time scale that value is in, and the body
Query(fn, j, scale, body) == [fn |-> fn, jd |-> j, scale |-> scale, body |-> body]

calculate_position(sd, planet_id, j) == position_record(calc_ut(sd, j, planet_id))

(***************************************************************************)
(* json.dump(all_data, f, indent=2): every dict becomes its <<key, value>> *)
(* pairs in insertion order, a float its decimal digits.                   *)
(***************************************************************************)
PositionOrder ==
    <<"longitude", "latitude", "distance", "longitude_speed", "latitude_speed",
      "is_retrograde">>

dump_record(r, order) ==
    LET present == SelectSeq(order, LAMBDA f : f \in DOMAIN r)
    IN  [i \in 1 .. Len(present) |-> <<present[i], r[present[i]]>>]

dump_positions(ps) ==
    [i \in 1 .. Len(ps) |-> <<ps[i][1], dump_record(ps[i][2], PositionOrder)>>]

dump_date(dd) ==
    << <<"description", dd.description>>,
       <<"jd", str_jd(dd.jd)>>,
       <<"positions", dump_positions(dd.positions)>> >>

dump_dates(ds) == [i \in 1 .. Len(ds) |-> <<ds[i][1], dump_date(ds[i][2])>>]

json_dump(data) ==
    << <<"generator", data.generator>>,
       <<"version", data.version>>,
       <<"generated_at", data.generated_at>>,
       <<"dates", dump_dates(data.dates)>>,
       <<"planets", data.planets>> >>

\* datetime.now().isoformat() at clock reading t
isoformat(t) == <<"isoformat", t>>

(***************************************************************************)
(* generate_reference_data.main, one action per step of its loops.         *)
(* file is the content of reference_ephemeris.json: <<>> while the file    *)
(* does not exist, <<content>> once written.                               *)
(***************************************************************************)
SweVersion == "2.10.03"

NoDateData == [description |-> "", jd |-> 0, positions |-> <<>>]

NoAllData ==
    [generator |-> "", version |-> "", generated_at |-> <<>>, dates |-> <<>>,
     planets |-> <<>>]

RefIdle ==
    /\ pc = "idle" /\ di = 0 /\ bi = 0
    /\ all_data = NoAllData /\ date_data = NoDateData
    /\ queries = <<>> /\ stdout = <<>> /\ file = <<>> /\ writes = 0
    /\ prev_file = <<>> /\ run = 0 /\ now = 0 /\ seed = 0 /\ fail_at = {}

RefInit ==
    /\ pc = "start" /\ di = 0 /\ bi = 0
    /\ all_data = NoAllData /\ date_data = NoDateData
    /\ queries = <<>> /\ stdout = <<>> /\ file = <<>> /\ writes = 0
    /\ prev_file = <<>> /\ run = 1 /\ now = 0
    /\ seed \in 0 .. MaxSeed
    /\ fail_at \in FailPoints

\* lines 93-106: banner, all_data = {...} with datetime.now()
MainSetup ==
    /\ pc = "start"
    /\ \E t \in (now + 1) .. MaxClock :
          /\ now' = t
          /\ all_data' = [generator    |-> "pyswisseph",
                          version      |-> SweVersion,
                          generated_at |-> isoformat(t),
                          dates        |-> <<>>,
                          planets      |-> [i \in 1 .. NPlanets |-> PLANETS[i].name]]
    /\ stdout' = Append(stdout, [banner |-> SweVersion])
    /\ di' = 1
    /\ pc' = IF NDates >= 1 THEN "date" ELSE "save"
    /\ UNCHANGED <<bi, date_data, queries, file, writes, prev_file, run, seed, fail_at>>
    /\ UNCHANGED <<chartVars, fnVars>>

\* lines 108-121: head of the loop over TEST_DATES
DateBegin ==
    /\ pc = "date"
    /\ date_data' = [description |-> TEST_DATES[di].desc,
                     jd          |-> TEST_DATES[di].jd,
                     positions   |-> <<>>]
    /\ stdout' = Append(stdout, [date |-> TEST_DATES[di].desc, jd |-> TEST_DATES[di].jd])
    /\ bi' = 1
    /\ pc' = IF NPlanets >= 1 THEN "body" ELSE "date_end"
    /\ UNCHANGED <<di, all_data, queries, file, writes, prev_file, run, now, seed, fail_at>>
    /\ UNCHANGED <<chartVars, fnVars>>

\* the table line of one planet (line 136)
PlanetRow(planet_name, pos) ==
    [planet |-> planet_name,
     longitude |-> pos.longitude,
     zodiac |-> format_zodiac(pos.longitude).text,
     retro  |-> IF pos.is_retrograde THEN "R" ELSE ""]

\* lines 123-136: one iteration of the loop over PLANETS.  swe.calc_ut is
\* called inside calculate_position with the entry's jd as it stands; when
\* it raises, the exception leaves calculate_position and main.
BodyStep ==
    /\ pc = "body"
    /\ LET planet == PLANETS[bi]
           j      == TEST_DATES[di].jd
           pos    == calculate_position(seed, planet.id, j)
       IN  /\ queries' = Append(queries,
                                Query("calc_ut", j, TEST_DATES[di].scale, planet.id))
           /\ \/ /\ calc_ut_raises(fail_at, j, planet.id)
                 /\ pc' = "raised"
                 /\ UNCHANGED <<bi, date_data, stdout>>
              \/ /\ ~calc_ut_raises(fail_at, j, planet.id)
                 /\ date_data' =
                       [date_data EXCEPT
                           !.positions = DictSet(@, planet.name, pos)]
                 /\ stdout' = Append(stdout, PlanetRow(planet.name, pos))
                 /\ bi' = bi + 1
                 /\ pc' = IF bi = NPlanets THEN "date_end" ELSE "body"
    /\ UNCHANGED <<di, all_data, file, writes, prev_file, run, now, seed, fail_at>>
    /\ UNCHANGED <<chartVars, fnVars>>

\* line 138: all_data['dates'][str(jd)] = date_data
DateEnd ==
    /\ pc = "date_end"
    /\ all_data' = [all_data EXCEPT
                       !.dates = DictSet(@, str_jd(TEST_DATES[di].jd), date_data)]
    /\ di' = di + 1
    /\ pc' = IF di = NDates THEN "save" ELSE "date"
    /\ UNCHANGED <<bi, date_data, queries, stdout, file, writes, prev_file, run, now,
                   seed, fail_at>>
    /\ UNCHANGED <<chartVars, fnVars>>

\* lines 140-144: open(json_path, 'w') and json.dump
SaveJson ==
    /\ pc = "save"
    /\ file' = <<json_dump(all_data)>>
    /\ writes' = writes + 1
    /\ stdout' = Append(stdout, [saved |-> "reference_ephemeris.json"])
    /\ pc' = "key_values"
    /\ UNCHANGED <<di, bi, all_data, date_data, queries, prev_file, run, now, seed,
                   fail_at>>
    /\ UNCHANGED <<chartVars, fnVars>>

KeyValuePlanets == <<"Sun", "Moon", "Mercury", "Venus", "Mars", "Jupiter">>

\* lines 146-161: all_data['dates']['2451545.0']['positions'] and the six
\* planets printed from it; a missing key raises KeyError.
KeyValues ==
    /\ pc = "key_values"
    /\ LET found == /\ DictHas(all_data.dates, J2000Key)
                    /\ \A i \in 1 .. Len(KeyValuePlanets) :
                          DictHas(DictGet(all_data.dates, J2000Key).positions,
                                  KeyValuePlanets[i])
       IN  /\ pc' = IF found THEN "done" ELSE "raised"
           /\ stdout' =
                 IF found
                 THEN Append(stdout,
                        [key_values |->
                           [i \in 1 .. Len(KeyValuePlanets) |->
                              PlanetRow(KeyValuePlanets[i],
                                        DictGet(DictGet(all_data.dates, J2000Key).positions,
                                                KeyValuePlanets[i]))]])
                 ELSE stdout
    /\ UNCHANGED <<di, bi, all_data, date_data, queries, file, writes, prev_file, run,
                   now, seed, fail_at>>
    /\ UNCHANGED <<chartVars, fnVars>>

\* lines 164-165: the script is started again, later, against the same
\* provider; only the file of the previous run is still there.
Rerun ==
    /\ pc \in {"done", "raised"}
    /\ now < MaxClock
    /\ prev_file' = file
    /\ run' = run + 1
    /\ pc' = "start" /\ di' = 0 /\ bi' = 0
    /\ all_data' = NoAllData /\ date_data' = NoDateData
    /\ queries' = <<>> /\ stdout' = <<>> /\ writes' = 0
    /\ UNCHANGED <<file, now, seed, fail_at>>
    /\ UNCHANGED <<chartVars, fnVars>>

(***************************************************************************)
(* einstein_chart.py: birth data and provider answers.                     *)
(***************************************************************************)
YEAR      == 1879
MONTH     == 3
DAY       == 14
HOUR_UT   == 10
MINUTE_UT == 50
SECOND_UT == 0
\* LATITUDE = 48.4 and LONGITUDE = 10.0, in micro degrees
LATITUDE  == 48400000
LONGITUDE == 10000000

\* body numbers of the additional points and of the obliquity query
TRUE_NODE == 11
MEAN_NODE == 10
MEAN_APOG == 12
ECL_NUT   == 0 - 1
\* body field of a query that is not about a body
NoBody    == 0 - 99

\* The geographic longitudes a chart is cast for: the script's own, and the
\* range of a GeoLocation (-180..+180 or 0..360, east positive).
GeoLongitudes ==
    {LONGITUDE} \cup {(k * LonStepDeg - 180) * Micro : k \in 0 .. (540 \div LonStepDeg)}

\* swe.sidtime(jd): hours in [0, 24), in micro hours
GmstInputs == {h * Micro : h \in 0 .. 23} \cup {24 * Micro - 1}

AscInputs == {15123456, 284000001}

\* the provider's twelve cusps by house number (cusp 1 is the ascendant)
HousesFrom(asc) ==
    [h \in 1 .. 12 |-> (asc + (h - 1) * Micro30 + (h % 3) * 2 * Micro) % Micro360]

\* what swe.houses answers: the twelve cusps, and whether the cusp tuple has
\* 13 elements (index 0 unused) or 12 (index 0 is house 1)
SkyInputs ==
    {[gmst |-> g, houses |-> HousesFrom(a), cusp_len |-> n, seed |-> a % 2,
      obliquity |-> 23452000] :
        g \in GmstInputs, a \in AscInputs, n \in {12, 13}}

\* swe.julday(year, month, day, hour) for a Gregorian date: the Julian Day as
\* whole days and minutes into that day (the day starts at noon), in UT
julday(year, month, day, minutes) ==
    LET a   == PyInt(month - 14, 12)
        jdn == PyInt(1461 * (year + 4800 + a), 4)
               + PyInt(367 * (month - 2 - 12 * a), 12)
               - PyInt(3 * PyInt(year + 4900 + a, 100), 4)
               + day - 32075
        m   == minutes + 720
    IN  IF m >= 1440
        THEN [day |-> jdn,     minute |-> m - 1440, scale |-> "UT", delta_ts |-> 0]
        ELSE [day |-> jdn - 1, minute |-> m,        scale |-> "UT", delta_ts |-> 0]

NoJd == [day |-> 0, minute |-> 0, scale |-> "", delta_ts |-> 0]

\* swe.calc_ut on the chart's Julian Day
chart_calc_ut(sd, j, planet_id) == calc_ut(sd, j.day + j.minute, planet_id)

\* the tuple swe.houses returns for the cusps
cusps_tuple(s) == IF s.cusp_len = 13 THEN <<0>> \o s.houses ELSE s.houses

ChartIdle ==
    /\ cpc = "idle"
    /\ geo = [latitude |-> 0, longitude |-> 0]
    /\ sky = [gmst |-> 0, houses |-> <<>>, cusp_len |-> 0, seed |-> 0, obliquity |-> 0]
    /\ jd = NoJd /\ jd_tt = NoJd /\ lst = 0 /\ cusps = <<>> /\ ascmc = <<>>
    /\ house_rows = <<>> /\ ci = 0 /\ cqueries = <<>> /\ crows = <<>>

ChartInit ==
    /\ cpc = "julday"
    /\ geo \in {[latitude |-> LATITUDE, longitude |-> l] : l \in GeoLongitudes}
    /\ sky \in SkyInputs
    /\ jd = NoJd /\ jd_tt = NoJd /\ lst = 0 /\ cusps = <<>> /\ ascmc = <<>>
    /\ house_rows = <<>> /\ ci = 0 /\ cqueries = <<>> /\ crows = <<>>

\* the one-sided reduction of lines 96-98
local_sidereal_time(armc, longitude) ==
    LET sum == armc + longitude
    IN  IF sum >= Micro360 THEN sum - Micro360 ELSE sum

\* lines 77-88: Julian Date (UT), Delta T, Julian Date (TT)
ChartJulday ==
    /\ cpc = "julday"
    /\ LET j == julday(YEAR, MONTH, DAY, HOUR_UT * 60 + MINUTE_UT + SECOND_UT \div 60)
       IN  /\ jd' = j
           /\ jd_tt' = [j EXCEPT !.scale = "TT", !.delta_ts = 1]
           /\ cqueries' = Append(cqueries, Query("deltat", j, j.scale, NoBody))
           /\ crows' = Append(crows, [julian_date_ut |-> j])
    /\ cpc' = "sidtime"
    /\ UNCHANGED <<geo, sky, lst, cusps, ascmc, house_rows, ci>>
    /\ UNCHANGED <<refVars, fnVars>>

\* lines 90-106: ARMC, LST and the obliquity
ChartSidereal ==
    /\ cpc = "sidtime"
    /\ lst' = local_sidereal_time(sky.gmst * 15, geo.longitude)
    /\ cqueries' = cqueries \o << Query("sidtime", jd, jd.scale, NoBody),
                                  Query("calc", jd, jd.scale, ECL_NUT) >>
    /\ crows' = Append(crows, [lst |-> lst', obliquity |-> sky.obliquity])
    /\ cpc' = "houses"
    /\ UNCHANGED <<geo, sky, jd, jd_tt, cusps, ascmc, house_rows, ci>>
    /\ UNCHANGED <<refVars, fnVars>>

\* lines 113-122: swe.houses and the angles
ChartHouses ==
    /\ cpc = "houses"
    /\ cusps' = cusps_tuple(sky)
    /\ ascmc' = <<sky.houses[1], sky.houses[10], sky.gmst * 15,
                  (sky.houses[1] + 180 * Micro + 7) % Micro360>>
    /\ cqueries' = Append(cqueries, Query("houses", jd, jd.scale, NoBody))
    /\ crows' = Append(crows,
                       [asc    |-> format_zodiac_chart(ascmc'[1]).text,
                        mc     |-> format_zodiac_chart(ascmc'[2]).text,
                        vertex |-> format_zodiac_chart(ascmc'[4]).text])
    /\ ci' = 1
    /\ cpc' = "cusps"
    /\ UNCHANGED <<geo, sky, jd, jd_tt, lst, house_rows>>
    /\ UNCHANGED <<refVars, fnVars>>

\* the bound of   for i in range(1, min(13, len(cusps)))
cusp_range_stop(cs) == IF 13 <= Len(cs) THEN 13 ELSE Len(cs)

\* lines 124-126: the loop over the house cusps; Python cusps[i] is the
\* element at position i + 1
ChartCuspStep ==
    /\ cpc = "cusps"
    /\ \/ /\ ci < cusp_range_stop(cusps)
          /\ house_rows' = Append(house_rows,
                                  [house     |-> ci,
                                   longitude |-> cusps[ci + 1],
                                   zodiac    |-> format_zodiac_chart(cusps[ci + 1]).text])
          /\ ci' = ci + 1
          /\ cpc' = "cusps"
       \/ /\ ci >= cusp_range_stop(cusps)
          /\ ci' = 1
          /\ cpc' = "planets"
          /\ UNCHANGED house_rows
    /\ UNCHANGED <<geo, sky, jd, jd_tt, lst, cusps, ascmc, cqueries, crows>>
    /\ UNCHANGED <<refVars, fnVars>>

ChartPlanetRow(planet_name, result) ==
    [planet |-> planet_name,
     zodiac |-> format_zodiac_chart(to_micro(result[1])).text,
     retro  |-> IF result[4] < 0 THEN " R" ELSE ""]

\* lines 136-143: one iteration of the loop over PLANETS
ChartPlanetStep ==
    /\ cpc = "planets"
    /\ LET planet == PLANETS[ci]
       IN  /\ cqueries' = Append(cqueries, Query("calc_ut", jd, jd.scale, planet.id))
           /\ crows' = Append(crows,
                              ChartPlanetRow(planet.name,
                                             chart_calc_ut(sky.seed, jd, planet.id)))
    /\ ci' = ci + 1
    /\ cpc' = IF ci = NPlanets THEN "extra" ELSE "planets"
    /\ UNCHANGED <<geo, sky, jd, jd_tt, lst, cusps, ascmc, house_rows>>
    /\ UNCHANGED <<refVars, fnVars>>

ExtraPoints == <<TRUE_NODE, MEAN_NODE, MEAN_APOG>>

SummaryBodies == <<0, 0, 0, 1, 1, 1, 2, 2, 2>>

\* lines 145-159: true node, mean node, mean Lilith
ChartExtra ==
    /\ cpc = "extra"
    /\ cqueries' = cqueries \o
                   [i \in 1 .. Len(ExtraPoints) |->
                       Query("calc_ut", jd, jd.scale, ExtraPoints[i])]
    /\ crows' = crows \o
                [i \in 1 .. Len(ExtraPoints) |->
                    [point  |-> ExtraPoints[i],
                     zodiac |-> format_zodiac_chart(
                                   to_micro(chart_calc_ut(sky.seed, jd, ExtraPoints[i])[1])).text]]
    /\ cpc' = "summary"
    /\ UNCHANGED <<geo, sky, jd, jd_tt, lst, cusps, ascmc, house_rows, ci>>
    /\ UNCHANGED <<refVars, fnVars>>

\* lines 165-203: the summary block queries Sun, Moon and Mercury three
\* times each
ChartSummary ==
    /\ cpc = "summary"
    /\ cqueries' = cqueries \o
                   [i \in 1 .. Len(SummaryBodies) |->
                       Query("calc_ut", jd, jd.scale, SummaryBodies[i])]
    /\ crows' = Append(crows,
                       [summary_jd |-> jd,
                        sun  |-> sign_idx(to_micro(chart_calc_ut(sky.seed, jd, 0)[1])),
                        moon |-> sign_idx(to_micro(chart_calc_ut(sky.seed, jd, 1)[1])),
                        asc  |-> sign_idx(ascmc[1]),
                        mc   |-> sign_idx(ascmc[2])])
    /\ cpc' = "done"
    /\ UNCHANGED <<geo, sky, jd, jd_tt, lst, cusps, ascmc, house_rows, ci>>
    /\ UNCHANGED <<refVars, fnVars>>

(***************************************************************************)
(* Single calls of format_zodiac and of calculate_position's record.       *)
(***************************************************************************)
FnIdle == fn_in = 0 /\ fn_out = <<>> /\ fn_done = "idle"

CallFormatZodiac ==
    /\ fn_done = "no"
    /\ fn_out' = format_zodiac(fn_in)
    /\ fn_done' = "format_zodiac"
    /\ UNCHANGED <<fn_in, refVars, chartVars>>

CallFormatZodiacChart ==
    /\ fn_done = "no"
    /\ fn_out' = format_zodiac_chart(fn_in)
    /\ fn_done' = "format_zodiac_chart"
    /\ UNCHANGED <<fn_in, refVars, chartVars>>

CallPositionRecord ==
    /\ fn_done = "no"
    /\ fn_out' = position_record(fn_in)
    /\ fn_done' = "calculate_position"
    /\ UNCHANGED <<fn_in, refVars, chartVars>>

(***************************************************************************)
(* Specifications.                                                         *)
(***************************************************************************)
\* generate_reference_data.py
Init == RefInit /\ ChartIdle /\ FnIdle

Next ==
    \/ MainSetup
    \/ DateBegin
    \/ BodyStep
    \/ DateEnd
    \/ SaveJson
    \/ KeyValues
    \/ Rerun

Spec == Init /\ [][Next]_vars

\* einstein_chart.py
InitChart == RefIdle /\ ChartInit /\ FnIdle

NextChart ==
    \/ ChartJulday
    \/ ChartSidereal
    \/ ChartHouses
    \/ ChartCuspStep
    \/ ChartPlanetStep
    \/ ChartExtra
    \/ ChartSummary

SpecChart == InitChart /\ [][NextChart]_vars

\* format_zodiac of either script, on one longitude
InitZodiac ==
    /\ RefIdle /\ ChartIdle
    /\ fn_in \in ZodiacInputs /\ fn_out = <<>> /\ fn_done = "no"

NextZodiac == CallFormatZodiac \/ CallFormatZodiacChart

SpecZodiac == InitZodiac /\ [][NextZodiac]_vars

\* the record calculate_position builds from one provider answer
InitPosition ==
    /\ RefIdle /\ ChartIdle
    /\ fn_in \in PositionInputs /\ fn_out = <<>> /\ fn_done = "no"

NextPosition == CallPositionRecord

SpecPosition == InitPosition /\ [][NextPosition]_vars

(***************************************************************************)
(* Properties.                                                             *)
(***************************************************************************)
ZodiacCalled == fn_done \in {"format_zodiac", "format_zodiac_chart"}

BuildEnded == pc \in {"done", "raised"}

\* number of calc_ut queries of the current build for body planet_id at
\* Julian Day j
QueryCount(j, planet_id) ==
    Cardinality({i \in 1 .. Len(queries) :
                    /\ queries[i].fn = "calc_ut"
                    /\ queries[i].jd = j
                    /\ queries[i].body = planet_id})

AllPairs == {<<i, k>> : i \in 1 .. NDates, k \in 1 .. NPlanets}

\* the exported structure, and the position records in it
Exported == file[1]

ExportedDates == DictGet(Exported, "dates")

ExportHasPosition(i, k) ==
    /\ DictHas(ExportedDates, str_jd(TEST_DATES[i].jd))
    /\ DictHas(DictGet(DictGet(ExportedDates, str_jd(TEST_DATES[i].jd)), "positions"),
               PLANETS[k].name)

\* C1: in the record calculate_position returns, is_retrograde is true
\* exactly when the record's own (rounded) longitude_speed is below 0.
C1_RetrogradeIffRoundedSpeedNegative ==
    fn_done = "calculate_position" =>
        (fn_out.is_retrograde <=> fn_out.longitude_speed < 0)

\* C1, what the code does guarantee: a negative rounded speed is flagged
\* retrograde, and a flagged record never has a positive rounded speed.
C1_RoundedSpeedAgreesInSign ==
    fn_done = "calculate_position" =>
        /\ fn_out.longitude_speed < 0 => fn_out.is_retrograde
        /\ fn_out.is_retrograde => fn_out.longitude_speed <= 0

\* C2: a build in which the provider fails for one (date, body) still runs
\* to its end and exports the positions of every other date and body.
C2_PartialFailureStillExports ==
    (BuildEnded /\ fail_at # {}) =>
        /\ pc = "done"
        /\ writes = 1
        /\ \A p \in AllPairs :
              <<TEST_DATES[p[1]].jd, PLANETS[p[2]].id>> \notin fail_at
                  => ExportHasPosition(p[1], p[2])

\* C3: a later run against the same provider answers writes the same file
\* as the run before it.
C3_RerunWritesIdenticalFile ==
    (run >= 2 /\ pc = "done" /\ prev_file # <<>>) => file = prev_file

\* C3, the part that does repeat: everything but generated_at.
C3_RerunRepeatsDates ==
    (run >= 2 /\ pc = "done" /\ prev_file # <<>>) =>
        \A key \in {"generator", "version", "dates", "planets"} :
            DictGet(file[1], key) = DictGet(prev_file[1], key)

C4_InRangeForEasternLongitudes ==
    (cpc \in {"houses", "cusps", "planets", "extra", "summary", "done"}
       /\ geo.longitude >= 0) =>
        (0 <= lst /\ lst < Micro360)

\* C5: for every longitude, negative ones and those of 360 or more included,
\* format_zodiac selects sign floor(L/30) mod 12 and reports degree L mod 30.
C5_SignIsFloorForEveryLongitude ==
    ZodiacCalled =>
        /\ fn_out.sign_idx = (fn_in \div Micro30) % 12
        /\ fn_out.degrees = fn_in % Micro30
        /\ fn_out.text.sign \in {signs[((fn_in \div Micro30) % 12) + 1],
                                 SIGNS[((fn_in \div Micro30) % 12) + 1]}

\* C5 restricted to longitudes of 0 or more (360 and beyond included).
C5_SignIsFloorFromZeroUp ==
    (ZodiacCalled /\ fn_in >= 0) =>
        /\ fn_out.sign_idx = (fn_in \div Micro30) % 12
        /\ fn_out.degrees = fn_in % Micro30

\* C6: reconstruction law.  For a longitude L in [0, 360) the sign index s
\* and degree d of format_zodiac satisfy 0 <= s <= 11, 0 <= d < 30 and
\* s * 30 + d = L.
C6_Reconstruction ==
    (ZodiacCalled /\ 0 <= fn_in /\ fn_in < Micro360) =>
        /\ fn_out.sign_idx \in 0 .. 11
        /\ 0 <= fn_out.degrees /\ fn_out.degrees < Micro30
        /\ fn_out.sign_idx * Micro30 + fn_out.degrees = fn_in

C6_Witness ==
    /\ ZodiacCalled
    /\ fn_in = 359 * Micro + (Micro - 1)
    /\ fn_out.sign_idx = 11
    /\ fn_out.degrees = 29 * Micro + (Micro - 1)

\* C7: every Julian Day handed to swe.calc_ut is a UT value, never one that
\* is in, or is labelled as being in, TT.
C7_CalcUtReceivesUT ==
    /\ \A i \in 1 .. Len(queries) :
          queries[i].fn = "calc_ut" => queries[i].scale = "UT"
    /\ \A i \in 1 .. Len(cqueries) :
          cqueries[i].fn = "calc_ut" => cqueries[i].scale = "UT"

\* the Julian Day strings of the six TEST_DATES entries, in order:
\* "2451545.0", "2448724.5", "2415020.5", "2440587.5", "2459580.5",
\* "2488069.5"
ExpectedDateKeys ==
    << <<2451545, 0>>, <<2448724, 5>>, <<2415020, 5>>, <<2440587, 5>>,
       <<2459580, 5>>, <<2488069, 5>> >>

C9_EveryPairOnceThenOneWrite ==
    /\ \A p \in AllPairs : QueryCount(TEST_DATES[p[1]].jd, PLANETS[p[2]].id) <= 1
    /\ Len(queries) <= NDates * NPlanets
    /\ writes <= 1
    /\ writes = 1 =>
          \A p \in AllPairs : QueryCount(TEST_DATES[p[1]].jd, PLANETS[p[2]].id) = 1
    /\ BuildEnded =>
          /\ writes = 1
          /\ \A p \in AllPairs : QueryCount(TEST_DATES[p[1]].jd, PLANETS[p[2]].id) = 1

\* C9 in the builds in which no provider call fails.
C9_HoldsWithoutProviderFailure ==
    /\ \A p \in AllPairs : QueryCount(TEST_DATES[p[1]].jd, PLANETS[p[2]].id) <= 1
    /\ Len(queries) <= NDates * NPlanets
    /\ writes <= 1
    /\ writes = 1 =>
          \A p \in AllPairs : QueryCount(TEST_DATES[p[1]].jd, PLANETS[p[2]].id) = 1
    /\ (BuildEnded /\ fail_at = {}) =>
          /\ writes = 1
          /\ \A p \in AllPairs : QueryCount(TEST_DATES[p[1]].jd, PLANETS[p[2]].id) = 1

\* C10: the listing has exactly twelve cusps, House 1 to House 12 in
\* increasing order, and the cusp labelled House i is the provider's cusp of
\* house i, whether the provider's cusp tuple has 13 elements or 12.
C10_TwelveCuspsRightlyLabelled ==
    cpc \in {"planets", "extra", "summary", "done"} =>
        /\ Len(house_rows) = 12
        /\ \A i \in 1 .. Len(house_rows) :
              /\ house_rows[i].house = i
              /\ house_rows[i].longitude = sky.houses[i]

\* C10 for a 13-element cusp tuple (index 0 unused).
C10_RightFor13ElementTuple ==
    (cpc \in {"planets", "extra", "summary", "done"} /\ sky.cusp_len = 13) =>
        /\ Len(house_rows) = 12
        /\ \A i \in 1 .. Len(house_rows) :
              /\ house_rows[i].house = i
              /\ house_rows[i].longitude = sky.houses[i]

====
